---- MODULE Spec2Model ----
(***************************************************************************)
(* feather-ctl: the build-promotion controller (src/tools/feather-ctl.py). *)
(*                                                                         *)
(* State: the directory of *.bin artifacts, the "active" pointer file, the *)
(* live binary, and the position of the one request handler that           *)
(* HTTPServer.serve_forever runs at a time.  Strings are sequences of      *)
(* one-character strings so that str.strip() is computed, not assumed.     *)
(* The environment (copy, chmod, supervisorctl, the health endpoint) is a  *)
(* nondeterministic choice among the outcomes the calls can produce.       *)
(*                                                                         *)
(* Environment: artifacts are put in the store before the server starts    *)
(* and nothing but the handlers touches the disk afterwards; the version   *)
(* of a promote body is a JSON string; ACTIVE_FILE.write_text succeeds;    *)
(* copy2 and chmod may raise, supervisorctl may succeed, fail or exceed    *)
(* its 10 s time-out, get_health returns None, a falsy JSON value or a     *)
(* non-empty object.  Sizes and modification times of artifacts are not    *)
(* modelled.  The Active Pointer is the value the readers obtain,          *)
(* ACTIVE_FILE.read_text().strip(); empty or no file is "unset".           *)
(***************************************************************************)
EXTENDS Integers, Sequences, FiniteSets, TLC

\* Largest number of artifacts in the store at start-up.
MaxBuilds == 2

\* for _ in range(15)
PollAttempts == 15

\* Largest number of connections waiting for the server loop.
MaxBacklog == 1

----------------------------------------------------------------------------
(* Strings *)

\* The characters str.strip() removes; " " stands for any of them.
Whitespace == {" "}

\* Artifact names (stems of *.bin files) and version strings of requests.
Names == {<<"a">>, <<"b">>, <<"a", " ">>, <<" ">>}

\* The default of do_GET's status branch when the active file is missing.
Unknown == <<"unknown">>

RECURSIVE LStrip(_, _)
LStrip(s, cs) ==
  IF s # <<>> /\ Head(s) \in cs THEN LStrip(Tail(s), cs) ELSE s

RECURSIVE RStrip(_, _)
RStrip(s, cs) ==
  IF s # <<>> /\ s[Len(s)] \in cs THEN RStrip(SubSeq(s, 1, Len(s) - 1), cs) ELSE s

\* str.strip(chars)
Strip(s, cs) == RStrip(LStrip(s, cs), cs)

\* Code points, for the order sorted() uses on str.
CharCode(c) ==
  CASE c = " " -> 32
    [] c = "/" -> 47
    [] c = "a" -> 97
    [] c = "b" -> 98

RECURSIVE StrLess(_, _)
StrLess(s, t) ==
  IF t = <<>> THEN FALSE
  ELSE IF s = <<>> THEN TRUE
  ELSE IF Head(s) = Head(t) THEN StrLess(Tail(s), Tail(t))
  ELSE CharCode(Head(s)) < CharCode(Head(t))

----------------------------------------------------------------------------
(* State *)

VARIABLES
  backlog,       \* connections made and not yet taken by serve_forever
  builds_dir_exists,  \* BUILDS_DIR.exists()
  builds_dir,    \* stems of the *.bin files in BUILDS_DIR
  active_file,   \* ACTIVE_FILE: [exists, text]
  feather_bin,   \* FEATHER_BIN: [ver, state]; ver = <<>> is the installed binary
  pc,            \* position of the handler; "idle" = waiting in serve_forever
  req,           \* the request being (or last) handled: [op, version]
  i,             \* iterations of the poll loop completed
  did,           \* what the handler has done so far in this request
  first_ok,      \* the probe at which get_health first returned a value:
                 \* "never", the "latest" probe made, or an "earlier" one
  health,        \* what the handler's last get_health() returned
  resp,          \* the response sent for req
  pre            \* the disk as it was when req arrived

vars == <<backlog, builds_dir_exists, builds_dir, active_file, feather_bin, pc, req, i, did, first_ok, health, resp, pre>>

NoFile == [exists |-> FALSE, text |-> <<>>]
File(text) == [exists |-> TRUE, text |-> text]

Installed == [ver |-> <<>>, state |-> "exec"]

DidNothing ==
  [copy |-> "no", chmod |-> "no", write |-> "no", restart |-> "no",
   sleeps |-> 0, probes |-> 0]

NoResp ==
  [kind |-> "none", code |-> 0, ok |-> "absent", msg |-> "", healthy |-> "absent",
   active_version |-> <<>>, build_count |-> 0, builds |-> <<>>]

\* _json(code, ...)
Json(code) == [NoResp EXCEPT !.kind = "json", !.code = code]

\* An exception left the handler: socketserver closes the connection, no response.
Crash == [NoResp EXCEPT !.kind = "crash"]

Disk == [builds |-> builds_dir, active |-> active_file, bin |-> feather_bin]

----------------------------------------------------------------------------
(* Pure parts of the code *)

\* ACTIVE_FILE.read_text().strip() if ACTIVE_FILE.exists() else default
ReadActive(file, default) ==
  IF file.exists THEN Strip(file.text, Whitespace) ELSE default

\* The Active Pointer as every reader but /status sees it; <<>> is "unset".
ActivePointer(file) == ReadActive(file, <<>>)

\* src.exists() / target.exists()
ExistsAlways(b, version) == TRUE

Exists(b, version) == version \in b

\* target.unlink()
UnlinkAll(b, version) == {}

Unlink(b, version) == b \ {version}

\* sorted(BUILDS_DIR.glob("*.bin"), key=lambda f: f.stem, reverse=True)
RECURSIVE SortedAsc(_)
SortedAsc(b) ==
  IF b = {} THEN <<>>
  ELSE LET m == CHOOSE x \in b : \A y \in b : y = x \/ StrLess(x, y)
       IN  <<m>> \o SortedAsc(b \ {m})

RECURSIVE SortedDesc(_)
SortedDesc(b) ==
  IF b = {} THEN <<>>
  ELSE LET m == CHOOSE x \in b : \A y \in b : y = x \/ StrLess(y, x)
       IN  <<m>> \o SortedDesc(b \ {m})

list_builds(d, b, file) ==
  IF ~d THEN <<>>
  ELSE LET active == ReadActive(file, <<>>)
           s == SortedDesc(b)
       IN  [k \in 1..Len(s) |-> [version |-> s[k], active |-> (s[k] = active)]]

\* What get_health() can return: None, a falsy JSON value, a non-empty object.
HealthValues == {"None", "Empty", "Object"}

\* No get_health() call yet in this handler.
NotCalled == "NotCalled"

\* if get_health():
Truthy(h) == h = "Object"

\* health is not None
IsNotNone(h) == h # "None"

\* for _ in range(15)
LoopContinuesOnceMore(n) == n <= PollAttempts

LoopContinues(n) == n < PollAttempts

\* subprocess.run(..., timeout=10) raises TimeoutExpired on time-out; a
\* non-zero exit status is returned, not raised (no check=True).
RestartOutcomes == {"succeeded", "failed", "timeout"}

RestartRaises(o) == o = "timeout"

----------------------------------------------------------------------------
(* Initial state *)

\* BUILDS_DIR.mkdir(parents=True, exist_ok=True), then serve_forever
Init ==
  /\ backlog = 0
  /\ builds_dir_exists = TRUE
  /\ builds_dir \in {b \in SUBSET Names : Cardinality(b) <= MaxBuilds}
  /\ active_file \in
       {NoFile} \cup
       {File(t) : t \in {n \in Names \cup {m \o <<" ">> : m \in Names} :
                           Strip(n, Whitespace) \in builds_dir}}
  /\ feather_bin = Installed
  /\ pc = "idle"
  /\ req = [op |-> "none", version |-> <<>>]
  /\ i = 0
  /\ did = DidNothing
  /\ first_ok = "never"
  /\ health = NotCalled
  /\ resp = NoResp
  /\ pre = Disk

\* HTTPServer (no ThreadingMixIn): serve_forever calls the handler of one
\* connection and takes the next when that call has returned.
ServerTakesNextThreaded(p) == TRUE

ServerTakesNext(p) == p = "idle"

\* A client connects; this can happen at any time.
connect ==
  /\ backlog < MaxBacklog
  /\ backlog' = backlog + 1
  /\ UNCHANGED <<builds_dir_exists, builds_dir, active_file, feather_bin, pc, req, i,
                 did, first_ok, health, resp, pre>>

\* A handler starts: remember the request and the disk it found.
Accept(op, version) ==
  /\ ServerTakesNext(pc)
  /\ backlog > 0
  /\ backlog' = backlog - 1
  /\ req' = [op |-> op, version |-> version]
  /\ pre' = Disk
  /\ i' = 0
  /\ first_ok' = "never"

Reply(r) ==
  /\ resp' = r
  /\ pc' = "idle"

DiskUnchanged == UNCHANGED <<builds_dir_exists, builds_dir, active_file, feather_bin>>

----------------------------------------------------------------------------
(* GET *)

\* do_GET, path /admin/api/builds
do_GET_builds ==
  /\ Accept("builds", <<>>)
  /\ did' = DidNothing
  /\ health' = NotCalled
  /\ Reply([Json(200) EXCEPT !.builds = list_builds(builds_dir_exists, builds_dir, active_file)])
  /\ DiskUnchanged

\* do_GET, path /admin/api/status
do_GET_status ==
  \E h \in HealthValues :
    /\ Accept("status", <<>>)
    /\ did' = [DidNothing EXCEPT !.probes = 1]
    /\ health' = h
    /\ Reply([Json(200) EXCEPT
                !.active_version = ReadActive(active_file, Unknown),
                !.healthy = IF IsNotNone(h) THEN "true" ELSE "false",
                !.build_count = Len(list_builds(builds_dir_exists, builds_dir, active_file))])
    /\ DiskUnchanged

\* do_GET, do_POST, do_DELETE: any other path
do_other ==
  /\ Accept("other", <<>>)
  /\ did' = DidNothing
  /\ health' = NotCalled
  /\ Reply([Json(404) EXCEPT !.msg = "not found"])
  /\ DiskUnchanged

----------------------------------------------------------------------------
(* DELETE /admin/api/builds/{version} *)

\* A request line is split on whitespace, so a path carries none.
PathNames == {n \in Names : \A k \in 1..Len(n) : n[k] \notin Whitespace}

PathTails ==
  {<<>>, <<"/">>} \cup PathNames \cup {n \o <<"/">> : n \in PathNames}

\* The status do_DELETE answers with, in the order of its checks.
delete_code_unguarded(version, file, b) ==
  IF version = <<>> THEN 400
  ELSE IF ~Exists(b, version) THEN 404
  ELSE 200

delete_code_404_first(version, file, b) ==
  IF version = <<>> THEN 400
  ELSE IF ~Exists(b, version) THEN 404
  ELSE IF version = ReadActive(file, <<>>) THEN 409
  ELSE 200

delete_code(version, file, b) ==
  IF version = <<>> THEN 400
  ELSE IF version = ReadActive(file, <<>>) THEN 409
  ELSE IF ~Exists(b, version) THEN 404
  ELSE 200

do_DELETE ==
  \E tail \in PathTails :
    LET version == Strip(tail, {"/"})
        code == delete_code(version, active_file, builds_dir)
    IN  /\ Accept("delete", version)
        /\ did' = DidNothing
        /\ health' = NotCalled
        /\ builds_dir' = IF code = 200 THEN Unlink(builds_dir, version) ELSE builds_dir
        /\ Reply([Json(code) EXCEPT
                    !.ok = IF code = 200 THEN "true" ELSE "absent",
                    !.msg = CASE code = 400 -> "version required"
                              [] code = 409 -> "Cannot delete the active build"
                              [] code = 404 -> "not found"
                              [] code = 200 -> "deleted"])
        /\ UNCHANGED <<builds_dir_exists, active_file, feather_bin>>

----------------------------------------------------------------------------
(* POST /admin/api/promote: do_POST and promote_version, step by step *)

PromoteVersions == Names \cup {<<>>}

\* return False, f"Build {version} not found"   (answered with 404)
promote_not_found == [Json(404) EXCEPT !.ok = "false", !.msg = "not found"]

\* return True, "OK"
promote_ok == [Json(200) EXCEPT !.ok = "true", !.msg = "OK"]

\* return True, "Restarted but health check not yet passing"
promote_exhausted_fails == [Json(404) EXCEPT !.ok = "false", !.msg = "not yet healthy"]

promote_exhausted == [Json(200) EXCEPT !.ok = "true", !.msg = "not yet healthy"]

\* The order of the statements of promote_version after the existence check.
StepAfterRestartFirst(step) ==
  CASE step = "copy" -> "chmod"
    [] step = "chmod" -> "restart"
    [] step = "restart" -> "write"
    [] step = "write" -> "sleep"

StepAfterSkipChmod(step) ==
  CASE step = "copy" -> "write"
    [] step = "chmod" -> "write"
    [] step = "write" -> "restart"
    [] step = "restart" -> "sleep"

StepAfter(step) ==
  CASE step = "copy" -> "chmod"
    [] step = "chmod" -> "write"
    [] step = "write" -> "restart"
    [] step = "restart" -> "sleep"

\* do_POST up to the existence check of promote_version
do_POST_promote ==
  \E version \in PromoteVersions :
    /\ Accept("promote", version)
    /\ did' = DidNothing
    /\ health' = NotCalled
    /\ DiskUnchanged
    /\ IF version = <<>>
         THEN Reply([Json(400) EXCEPT !.msg = "version required"])
       ELSE IF ~Exists(builds_dir, version)
         THEN Reply(promote_not_found)
       ELSE /\ pc' = "copy"
            /\ resp' = NoResp

\* shutil.copy2(src, FEATHER_BIN)
CopyOutcomes == {"ok", "fail_before_write", "fail_partway"}

\* A failed copy raises (OSError, shutil.Error); nothing in the handler catches it.
CopyNeverRaises(o) == FALSE

CopyRaises(o) == o # "ok"

promote_copy2 ==
  \E o \in CopyOutcomes :
    /\ pc = "copy"
    /\ did' = [did EXCEPT !.copy = IF o = "ok" THEN "ok" ELSE "fail"]
    /\ feather_bin' =
         CASE o = "ok" -> [ver |-> req.version, state |-> "copied"]
           [] o = "fail_partway" -> [ver |-> req.version, state |-> "partial"]
           [] o = "fail_before_write" -> feather_bin
    /\ IF CopyRaises(o) THEN Reply(Crash)
       ELSE pc' = StepAfter("copy") /\ UNCHANGED resp
    /\ UNCHANGED <<backlog, builds_dir_exists, builds_dir, active_file, req, i, first_ok, health, pre>>

\* os.chmod(FEATHER_BIN, 0o755)
promote_chmod ==
  \E o \in {"ok", "fail"} :
    /\ pc = "chmod"
    /\ did' = [did EXCEPT !.chmod = o]
    /\ feather_bin' = IF o = "ok" THEN [feather_bin EXCEPT !.state = "exec"]
                      ELSE feather_bin
    /\ IF o = "ok" THEN pc' = StepAfter("chmod") /\ UNCHANGED resp ELSE Reply(Crash)
    /\ UNCHANGED <<backlog, builds_dir_exists, builds_dir, active_file, req, i, first_ok, health, pre>>

\* ACTIVE_FILE.write_text(version)
promote_write_text ==
  /\ pc = "write"
  /\ active_file' = File(req.version)
  /\ did' = [did EXCEPT !.write = "ok"]
  /\ pc' = StepAfter("write")
  /\ UNCHANGED <<backlog, builds_dir_exists, builds_dir, feather_bin, req, i, first_ok, health, resp, pre>>

\* subprocess.run(["sudo", "supervisorctl", "restart", "feather"], timeout=10)
promote_restart ==
  \E o \in RestartOutcomes :
    /\ pc = "restart"
    /\ did' = [did EXCEPT !.restart = o]
    /\ IF RestartRaises(o) THEN Reply(Crash)
       ELSE pc' = StepAfter("restart") /\ UNCHANGED resp
    /\ UNCHANGED <<backlog, builds_dir_exists, builds_dir, active_file, feather_bin, req, i, first_ok, health, pre>>

\* time.sleep(1) at the top of an iteration; the loop ends when range(15) does
promote_sleep ==
  /\ pc = "sleep"
  /\ IF LoopContinues(i)
       THEN /\ did' = [did EXCEPT !.sleeps = @ + 1]
            /\ pc' = "probe"
            /\ UNCHANGED resp
       ELSE /\ Reply(promote_exhausted)
            /\ UNCHANGED did
  /\ UNCHANGED <<backlog, builds_dir_exists, builds_dir, active_file, feather_bin, req, i, first_ok, health, pre>>

\* if get_health(): return True, "OK"
promote_get_health ==
  \E h \in HealthValues :
    /\ pc = "probe"
    /\ did' = [did EXCEPT !.probes = @ + 1]
    /\ health' = h
    /\ first_ok' = IF first_ok # "never" THEN "earlier"
                   ELSE IF IsNotNone(h) THEN "latest" ELSE "never"
    /\ IF Truthy(h)
         THEN /\ Reply(promote_ok)
              /\ UNCHANGED i
         ELSE /\ i' = i + 1
              /\ pc' = "sleep"
              /\ UNCHANGED resp
    /\ UNCHANGED <<backlog, builds_dir_exists, builds_dir, active_file, feather_bin, req, pre>>

----------------------------------------------------------------------------
(* POST /admin/api/restart *)

do_POST_restart ==
  \E o \in RestartOutcomes, h \in HealthValues :
    /\ Accept("restart", <<>>)
    /\ DiskUnchanged
    /\ IF RestartRaises(o)
         THEN /\ did' = [DidNothing EXCEPT !.restart = o]
              /\ health' = NotCalled
              /\ Reply(Crash)
         ELSE /\ did' = [DidNothing EXCEPT !.restart = o, !.sleeps = 1, !.probes = 1]
              /\ health' = h
              /\ Reply([Json(200) EXCEPT
                          !.ok = "true",
                          !.healthy = IF IsNotNone(h) THEN "true" ELSE "false"])

----------------------------------------------------------------------------
(* The server *)

PromoteStep ==
  \/ promote_copy2
  \/ promote_chmod
  \/ promote_write_text
  \/ promote_restart
  \/ promote_sleep
  \/ promote_get_health

Next ==
  \/ connect
  \/ do_GET_builds
  \/ do_GET_status
  \/ do_other
  \/ do_DELETE
  \/ do_POST_promote
  \/ do_POST_restart
  \/ promote_copy2
  \/ promote_chmod
  \/ promote_write_text
  \/ promote_restart
  \/ promote_sleep
  \/ promote_get_health

Spec == Init /\ [][Next]_vars

\* list_builds on any store: a missing directory, any set of artifacts, any
\* content of the active file.
ListInit ==
  /\ backlog \in 0..MaxBacklog
  /\ builds_dir_exists \in BOOLEAN
  /\ builds_dir \in IF builds_dir_exists
                     THEN {b \in SUBSET Names : Cardinality(b) <= MaxBuilds}
                     ELSE {{}}
  /\ active_file \in
       IF builds_dir_exists
         THEN {NoFile} \cup
              {File(t) : t \in {<<>>} \cup Names \cup {m \o <<" ">> : m \in Names}}
         ELSE {NoFile}
  /\ feather_bin = Installed
  /\ pc = "idle"
  /\ req = [op |-> "none", version |-> <<>>]
  /\ i = 0
  /\ did = DidNothing
  /\ first_ok = "never"
  /\ health = NotCalled
  /\ resp = NoResp
  /\ pre = Disk

ListSpec == ListInit /\ [][do_GET_builds]_vars

\* A running handler is sequential code: its next statement is executed.
LiveSpec == Spec /\ WF_vars(PromoteStep)

----------------------------------------------------------------------------
(* Properties *)

\* The handler of req has ended (with a response, or by an exception).
Ended(op) == pc = "idle" /\ req.op = op /\ resp.kind # "none"

\* promote_version(req.version) was called and has returned to do_POST.
PromoteReturned == Ended("promote") /\ resp.kind = "json" /\ resp.code # 400

\* The versions GET /builds would list now.
Listed ==
  LET l == list_builds(builds_dir_exists, builds_dir, active_file)
  IN  {l[k].version : k \in 1..Len(l)}

\* C1: a delete of the version the Active Pointer names is answered 409, and
\* leaves the store (the artifact included) and the pointer as they were.
C1_DeleteActiveRefused ==
  (Ended("delete") /\ req.version # <<>> /\ req.version = ActivePointer(pre.active))
    => /\ resp.kind = "json"
       /\ resp.code = 409
       /\ builds_dir = pre.builds
       /\ active_file = pre.active

C1_Witness ==
  /\ Ended("delete")
  /\ resp.code = 409
  /\ req.version = ActivePointer(pre.active)
  /\ req.version \in builds_dir

\* C2: the Active Pointer is unset or names an artifact that is in the store.
C2_PointerNamesArtifact ==
  \/ ActivePointer(active_file) = <<>>
  \/ ActivePointer(active_file) \in builds_dir

\* C3: promote of a version with no artifact fails with "not found" and changes
\* nothing: no step of the workflow runs, no restart, no probe.
C3_PromoteMissingNoEffect ==
  (req.op = "promote" /\ req.version # <<>> /\ req.version \notin pre.builds)
    => /\ pc = "idle"
       /\ resp = promote_not_found
       /\ Disk = pre
       /\ did = DidNothing

C3_Witness ==
  /\ Ended("promote")
  /\ req.version # <<>>
  /\ req.version \notin pre.builds
  /\ pre.builds # {}
  /\ pre.active.exists

\* C4: from the pointer write of promote(v) on, and when promote returns, the
\* Active Pointer is v.
C4_PromoteSetsPointer ==
  (/\ req.op = "promote"
   /\ req.version \in pre.builds
   /\ \/ did.write = "ok"
      \/ PromoteReturned)
    => ActivePointer(active_file) = req.version

\* C5: fifteen unreachable probes still give success with the degraded message,
\* and promote reports failure only when the artifact did not exist.
C5_UnreachableStillSuccess ==
  PromoteReturned
    => /\ (did.probes = PollAttempts /\ first_ok = "never")
            => (resp.code = 200 /\ resp.ok = "true" /\ resp.msg = "not yet healthy")
       /\ (resp.ok = "false") <=> (req.version \notin pre.builds)
       /\ (resp.ok = "false") => did = DidNothing

C5_Witness ==
  /\ PromoteReturned
  /\ did.probes = PollAttempts
  /\ first_ok = "never"
  /\ resp.ok = "true"

\* C6: once a probe of promote has been reachable, on attempt k, promote has
\* returned "OK" after exactly k probes: the first reachable probe is the
\* latest probe made, and no probe follows it.
C6_FirstReachableReturnsOK ==
  (req.op = "promote" /\ first_ok # "never")
    => /\ PromoteReturned
       /\ resp = promote_ok
       /\ first_ok = "latest"

\* C7: the poll loop makes at most 15 probes, one sleep before each, ends with
\* "OK" on a probe or with the degraded outcome after the 15th, and every
\* promote ends.
C7_PollBounded ==
  req.op = "promote"
    => /\ did.probes <= PollAttempts
       /\ did.sleeps = did.probes + (IF pc = "probe" THEN 1 ELSE 0)
       /\ (PromoteReturned /\ resp.ok = "true")
            => \/ resp = promote_ok /\ did.probes \in 1..PollAttempts
               \/ resp = promote_exhausted /\ did.probes = PollAttempts

C7_PromoteTerminates ==
  /\ []C7_PollBounded
  /\ (pc \in {"sleep", "probe"}) ~> (PromoteReturned /\ resp.ok = "true")
  /\ (pc # "idle") ~> (pc = "idle")

C7_Witness ==
  /\ PromoteReturned
  /\ resp = promote_exhausted
  /\ did.sleeps = PollAttempts

\* C8: within a promote, each step runs only after the one before it went
\* through: existence check, copy, chmod, pointer write, restart, probes; a
\* failed staging leaves the pointer unwritten and triggers no restart.
C8_StepsOrdered ==
  req.op = "promote"
    => /\ did.copy # "no" => req.version \in pre.builds
       /\ did.chmod # "no" => did.copy = "ok"
       /\ did.write # "no"
            => (did.chmod = "ok" /\ feather_bin = [ver |-> req.version, state |-> "exec"])
       /\ did.restart # "no" => (did.write = "ok" /\ active_file = File(req.version))
       /\ (did.sleeps > 0 \/ did.probes > 0) => did.restart \in {"succeeded", "failed"}
       /\ (did.copy = "fail" \/ did.chmod = "fail")
            => /\ active_file = pre.active
               /\ did.write = "no"
               /\ did.restart = "no"
               /\ did.probes = 0

C8_Witness ==
  /\ PromoteReturned
  /\ resp = promote_ok
  /\ did.restart = "failed"
  /\ did.probes = 3
  /\ active_file # pre.active

\* C9: whatever the restart primitive of a promote did, the promote went on to
\* poll and ended with a {success, message} response.
C9_RestartOutcomeIgnored ==
  (Ended("promote") /\ did.restart # "no")
    => /\ resp.kind = "json"
       /\ resp.ok \in {"true", "false"}
       /\ did.probes >= 1

\* C10: a delete of an existing version that the Active Pointer does not name
\* removes that version only: the listing loses it and nothing else, and the
\* pointer stays.
C10_DeleteRemovesExactly ==
  (/\ Ended("delete")
   /\ req.version \in pre.builds
   /\ req.version # ActivePointer(pre.active))
    => /\ resp.code = 200
       /\ req.version \notin Listed
       /\ Listed = pre.builds \ {req.version}
       /\ builds_dir = pre.builds \ {req.version}
       /\ active_file = pre.active
       /\ feather_bin = pre.bin

C10_Witness ==
  /\ Ended("delete")
  /\ resp.code = 200
  /\ builds_dir # {}
  /\ ActivePointer(active_file) \in builds_dir

\* C11: the answer to a delete is decided, in this order, by: empty version
\* 400, version the Active Pointer names 409, no such artifact 404, else 200;
\* only the 200 case changes the store, and nothing else on disk changes.
C11_DeleteOutcome ==
  Ended("delete")
    => /\ resp.kind = "json"
       /\ resp.code =
            (IF req.version = <<>> THEN 400
             ELSE IF req.version = ActivePointer(pre.active) THEN 409
             ELSE IF req.version \notin pre.builds THEN 404
             ELSE 200)
       /\ resp.code \in {400, 404, 409} => Disk = pre
       /\ resp.code = 200 => builds_dir # pre.builds
       /\ active_file = pre.active
       /\ feather_bin = pre.bin

\* A delete of the named version whose artifact is gone: 409, not 404.
C11_Witness ==
  /\ Ended("delete")
  /\ resp.code = 409
  /\ req.version \notin pre.builds

\* C12: GET /builds lists exactly the artifacts of the store, by version
\* descending, flags exactly the entry whose version the Active Pointer names
\* (so at most one), and lists nothing for an empty or missing store.
C12_ListBuilds ==
  Ended("builds")
    => LET l == resp.builds
       IN  /\ resp.code = 200
           /\ {l[k].version : k \in 1..Len(l)} = pre.builds
           /\ Len(l) = Cardinality(pre.builds)
           /\ \A k \in 1..(Len(l) - 1) : StrLess(l[k + 1].version, l[k].version)
           /\ \A k \in 1..Len(l) :
                l[k].active <=> (l[k].version = ActivePointer(pre.active))
           /\ Cardinality({k \in 1..Len(l) : l[k].active}) <= 1
           /\ (~builds_dir_exists \/ pre.builds = {}) => l = <<>>

C12_Witness ==
  /\ Ended("builds")
  /\ Len(resp.builds) >= 2
  /\ resp.builds[2].active
  /\ pre.active.text # resp.builds[2].version

\* C13: GET /status reports the Active Pointer ("" when it is unset), healthy
\* exactly when the probe returned a value, and the number of artifacts.
C13_Status ==
  Ended("status")
    => /\ resp.code = 200
       /\ resp.active_version = ActivePointer(pre.active)
       /\ (resp.healthy = "true") <=> IsNotNone(health)
       /\ resp.build_count = Cardinality(pre.builds)

\* C14: only the pointer write of a promote changes the Active Pointer: every
\* other request, and a promote of a missing version, leaves it as it was;
\* and a pointer that was set stays set.
C14_PointerOnlyPromoted ==
  /\ active_file # pre.active => (req.op = "promote" /\ did.write = "ok")
  /\ (req.op = "promote" /\ req.version \notin pre.builds) => active_file = pre.active
  /\ ActivePointer(pre.active) # <<>> => ActivePointer(active_file) # <<>>

\* C15: POST /restart triggers the restart, makes exactly one probe and
\* answers 200 whatever the restart and the probe gave; the disk is untouched.
C15_RestartAlways200 ==
  Ended("restart")
    => /\ did.restart # "no"
       /\ did.probes = 1
       /\ resp.kind = "json"
       /\ resp.code = 200
       /\ Disk = pre

\* C16: a connection is taken off the backlog, i.e. a handler starts, only
\* when no handler is executing; none starts while a promote is between its
\* existence check and its return.
C16_Serialized == [][backlog' < backlog => pc = "idle"]_vars

\* A request waits while a promote is in its poll loop.
C16_Witness ==
  /\ backlog > 0
  /\ pc = "probe"
  /\ did.probes >= 2

\* The live binary is a complete executable copy of the artifact whose
\* version the active file holds.
BinIsActive(bin, file) ==
  /\ file.exists
  /\ bin = [ver |-> file.text, state |-> "exec"]

\* C17 (as claimed): whenever no promote is in flight and the pointer was set
\* by a promotion (by this request, or the live binary was the promoted copy
\* when the request arrived), the live binary is a complete executable copy of
\* the version the pointer was set to.
C17_LiveBinaryIsActive ==
  (pc = "idle" /\ (did.write = "ok" \/ BinIsActive(pre.bin, pre.active)))
    => BinIsActive(feather_bin, active_file)

StagingFailed == did.copy = "fail" \/ did.chmod = "fail"

\* C17 (amended): the same, except after a promote whose copy or chmod failed:
\* that leaves the pointer as it was and the live binary untouched, partly
\* copied, or copied without the chmod.
C17_LiveBinaryIsActiveUnlessStagingFailed ==
  pc = "idle"
    => /\ ((did.write = "ok" \/ BinIsActive(pre.bin, pre.active)) /\ ~StagingFailed)
            => BinIsActive(feather_bin, active_file)
       /\ StagingFailed
            => /\ active_file = pre.active
               /\ feather_bin \in {pre.bin,
                                   [ver |-> req.version, state |-> "partial"],
                                   [ver |-> req.version, state |-> "copied"]}

\* After a promotion of one version, the copy of another failed partway.
C17_Witness ==
  /\ Ended("promote")
  /\ BinIsActive(pre.bin, pre.active)
  /\ feather_bin = [ver |-> req.version, state |-> "partial"]
  /\ req.version # pre.active.text

\* C18 (as claimed, of every promote whose copy failed partway): the pointer
\* is nevertheless committed to the target version.
C18_FailedCopyStillCommits ==
  (Ended("promote") /\ did.copy = "fail" /\ feather_bin.state = "partial")
    => (did.write = "ok" /\ active_file = File(req.version))

\* C18 (amended): no promote writes the pointer after its copy failed: the
\* promote ends there, the pointer is as it was and no restart is triggered.
C18_FailedCopyNeverCommits ==
  (req.op = "promote" /\ did.copy = "fail")
    => /\ pc = "idle"
       /\ resp = Crash
       /\ did.write = "no"
       /\ did.restart = "no"
       /\ active_file = pre.active

C18_Witness ==
  /\ Ended("promote")
  /\ did.copy = "fail"
  /\ feather_bin = [ver |-> req.version, state |-> "partial"]
  /\ pre.active # File(req.version)
  /\ active_file = pre.active

\* C19: the poll of promote takes a probe result for reachable (returns "OK" on
\* it) exactly when GET /status reports healthy for it (it is not None).
C19_SameClassification ==
  (req.op = "promote" /\ did.probes >= 1)
    => ((pc = "idle" /\ resp = promote_ok) <=> IsNotNone(health))

====
